---- MODULE Spec2Model ----
(***************************************************************************)
(* Two-phase invocations (strong-function, src/lib.rs).                    *)
(*                                                                         *)
(* An invocation is a value; `execute` runs its fallible phase `may_fail`  *)
(* and then, only on success, its infallible phase `commit`.  A tuple of   *)
(* two invocations is an invocation again.  The model is a small-step      *)
(* interpreter of `execute` over a tree of tuples: one action per          *)
(* statement of lib.rs, an explicit call stack for the recursion of the    *)
(* tuple implementation, and a history of every method invocation.         *)
(***************************************************************************)
EXTENDS Naturals, Sequences, FiniteSets, TLC

VARIABLES
    inv,      \* the invocation handed to execute (a tree of tuples)
    owner,    \* who owns `inv`: "caller", "execute", "commit" or "dropped"
    stack,    \* call stack, innermost frame last
    ret,      \* value returned by the call that returned last
    log,      \* history: every may_fail / commit invocation, in order
    mf,       \* history: path of a node |-> what its may_fail returned
    out,      \* history: path of a node |-> what its commit returned
    flag,     \* paths of the leaves whose commit has run
    result    \* what execute returned to the caller

vars == <<inv, owner, stack, ret, log, mf, out, flag, result>>

----------------------------------------------------------------------------
(* Bounds *)

MaxLeaves == 3

----------------------------------------------------------------------------
(* Values *)

(* Every value carries its Rust type, so that values of different types   *)
(* are different values.                                                   *)
Unit == [ty |-> "()"]
DummyState == [ty |-> "DummyState"]
I32(n) == [ty |-> "i32", v |-> n]
String(s) == [ty |-> "String", v |-> s]
State(s) == [ty |-> "IntermediateState", v |-> s]
Error(e) == [ty |-> "Error", v |-> e]
Tuple(a, b) == [ty |-> "(,)", f0 |-> a, f1 |-> b]
NoValue == [ty |-> "-"]

Values == {String("Hello, World!"), String("x")}
States == {State("s1"), State("s2")}
Errors == {Error("e1"), Error("e2")}
Inputs == {"in"}

None == [tag |-> "None", val |-> NoValue]
Ok(v) == [tag |-> "Ok", val |-> v]
Err(e) == [tag |-> "Err", val |-> e]
Returned(v) == [tag |-> "Out", val |-> v]

----------------------------------------------------------------------------
(* Invocations *)

Constant == [kind |-> "Constant"]
Identity(arg) == [kind |-> "Identity", f0 |-> arg]
Impl(input, res) == [kind |-> "Impl", input |-> input, res |-> res]
Pair(a, b) == [kind |-> "Pair", f0 |-> a, f1 |-> b]

ImplResults == {Ok(s) : s \in States} \cup {Err(e) : e \in Errors \cup {Unit}}

Leaves ==
    {Constant} \cup {Identity(a) : a \in Values}
        \cup {Impl(i, r) : i \in Inputs, r \in ImplResults}

IsLeaf(f) == f.kind # "Pair"

RECURSIVE Trees(_)
Trees(n) ==
    IF n = 1 THEN Leaves
    ELSE UNION {{Pair(a, b) : a \in Trees(k), b \in Trees(n - k)} : k \in 1..(n - 1)}

RECURSIVE LeafSeq(_, _)
LeafSeq(f, at) ==
    IF IsLeaf(f) THEN <<at>>
    ELSE LeafSeq(f.f0, Append(at, 0)) \o LeafSeq(f.f1, Append(at, 1))

RECURSIVE NodeAt(_, _)
NodeAt(f, at) ==
    IF at = <<>> THEN f
    ELSE NodeAt(IF Head(at) = 0 THEN f.f0 ELSE f.f1, Tail(at))

ErrorTypes(leaf) ==
    CASE leaf.kind = "Constant" -> {"Unit"}
      [] leaf.kind = "Identity" -> {"Unit"}
      [] leaf.kind = "Impl" ->
            IF leaf.res.tag = "Ok" THEN {"Unit", "E"}
            ELSE IF leaf.res.val = Unit THEN {"Unit"} ELSE {"E"}

WellTyped(f) ==
    \E T \in {"Unit", "E"} :
        \A i \in DOMAIN LeafSeq(f, <<>>) :
            T \in ErrorTypes(NodeAt(f, LeafSeq(f, <<>>)[i]))

Invocations == {f \in UNION {Trees(n) : n \in 1..MaxLeaves} : WellTyped(f)}

----------------------------------------------------------------------------
(* Call stack *)

Frame(fn, at, self, tmp, pc) ==
    [fn |-> fn, at |-> at, self |-> self, tmp |-> tmp, pc |-> pc, acc |-> NoValue]

Top == stack[Len(stack)]
Running(fn, pc) == stack # <<>> /\ Top.fn = fn /\ Top.pc = pc
Caller == SubSeq(stack, 1, Len(stack) - 1)

Goto(pc) == [stack EXCEPT ![Len(stack)].pc = pc]
GotoWith(pc, acc) == [stack EXCEPT ![Len(stack)].pc = pc, ![Len(stack)].acc = acc]

Invoked(call, fr) == [call |-> call, at |-> fr.at, self |-> fr.self, tmp |-> fr.tmp]

ReturnMayFail(res) ==
    /\ ret' = res
    /\ mf' = (Top.at :> res) @@ mf
    /\ stack' = Caller

ReturnCommit(output) ==
    /\ ret' = Returned(output)
    /\ out' = (Top.at :> output) @@ out
    /\ stack' = Caller

----------------------------------------------------------------------------
(* Invocation::execute *)

Init ==
    /\ inv \in Invocations
    /\ owner = "caller"
    /\ stack = <<>>
    /\ ret = None
    /\ log = <<>>
    /\ mf = <<>>
    /\ out = <<>>
    /\ flag = {}
    /\ result = None

Execute ==
    /\ owner = "caller"
    /\ stack = <<>>
    /\ owner' = "execute"
    /\ stack' = <<Frame("execute", <<>>, inv, NoValue, "e0")>>
    /\ UNCHANGED <<inv, ret, log, mf, out, flag, result>>

ExecuteMayFail ==
    /\ Running("execute", "e0")
    /\ stack' = Append(Goto("e1"), Frame("may_fail", Top.at, Top.self, NoValue, "m0"))
    /\ UNCHANGED <<inv, owner, ret, log, mf, out, flag, result>>

(* Mutant: the error is noticed only after commit has been entered. *)
ExecuteErr_CommitsAnyway ==
    /\ Running("execute", "e1")
    /\ ret.tag = "Err"
    /\ owner' = "commit"
    /\ stack' = Append(Goto("e2"), Frame("commit", Top.at, Top.self, ret.val, "c0"))
    /\ UNCHANGED <<inv, ret, log, mf, out, flag, result>>

(* Mutant: a failed may_fail is attempted again. *)
ExecuteErr_Retries ==
    /\ Running("execute", "e1")
    /\ ret.tag = "Err"
    /\ stack' = Goto("e0")
    /\ UNCHANGED <<inv, owner, ret, log, mf, out, flag, result>>

ExecuteErr ==
    /\ Running("execute", "e1")
    /\ ret.tag = "Err"
    /\ result' = Err(ret.val)
    /\ owner' = "dropped"
    /\ stack' = Caller
    /\ UNCHANGED <<inv, ret, log, mf, out, flag>>

(* Mutant: the intermediate state is returned without committing. *)
ExecuteCommit_Skipped ==
    /\ Running("execute", "e1")
    /\ ret.tag = "Ok"
    /\ owner' = "dropped"
    /\ result' = Ok(ret.val)
    /\ stack' = Caller
    /\ UNCHANGED <<inv, ret, log, mf, out, flag>>

ExecuteCommit ==
    /\ Running("execute", "e1")
    /\ ret.tag = "Ok"
    /\ owner' = "commit"
    /\ stack' = Append(Goto("e2"), Frame("commit", Top.at, Top.self, ret.val, "c0"))
    /\ UNCHANGED <<inv, ret, log, mf, out, flag, result>>

ExecuteOk ==
    /\ Running("execute", "e2")
    /\ result' = Ok(ret.val)
    /\ stack' = Caller
    /\ UNCHANGED <<inv, owner, ret, log, mf, out, flag>>

----------------------------------------------------------------------------
(* impl Invocation for (F1, F2) *)

PairMayFailFirst ==
    /\ Running("may_fail", "m0")
    /\ Top.self.kind = "Pair"
    /\ log' = Append(log, Invoked("may_fail", Top))
    /\ stack' = Append(Goto("m1"),
                       Frame("may_fail", Append(Top.at, 0), Top.self.f0, NoValue, "m0"))
    /\ UNCHANGED <<inv, owner, ret, mf, out, flag, result>>

(* Mutant: no short-circuit, the second element is validated all the same. *)
PairMayFailFirstErr_NoShortCircuit ==
    /\ Running("may_fail", "m1")
    /\ ret.tag = "Err"
    /\ stack' = Append(GotoWith("m2", ret.val),
                       Frame("may_fail", Append(Top.at, 1), Top.self.f1, NoValue, "m0"))
    /\ UNCHANGED <<inv, owner, ret, log, mf, out, flag, result>>

(* Mutant: the pair wraps the first element's error in an error of its own. *)
PairMayFailFirstErr_Wrapped ==
    /\ Running("may_fail", "m1")
    /\ ret.tag = "Err"
    /\ ReturnMayFail(Err(Tuple(Error("first"), ret.val)))
    /\ UNCHANGED <<inv, owner, log, out, flag, result>>

PairMayFailFirstErr ==
    /\ Running("may_fail", "m1")
    /\ ret.tag = "Err"
    /\ ReturnMayFail(Err(ret.val))
    /\ UNCHANGED <<inv, owner, log, out, flag, result>>

(* Mutant: the second element is not validated. *)
PairMayFailSecond_Skipped ==
    /\ Running("may_fail", "m1")
    /\ ret.tag = "Ok"
    /\ ReturnMayFail(Ok(Tuple(ret.val, NoValue)))
    /\ UNCHANGED <<inv, owner, log, out, flag, result>>

PairMayFailSecond ==
    /\ Running("may_fail", "m1")
    /\ ret.tag = "Ok"
    /\ stack' = Append(GotoWith("m2", ret.val),
                       Frame("may_fail", Append(Top.at, 1), Top.self.f1, NoValue, "m0"))
    /\ UNCHANGED <<inv, owner, ret, log, mf, out, flag, result>>

(* Mutant: the second element's error is taken for an intermediate state. *)
PairMayFailSecondErr_Ignored ==
    /\ Running("may_fail", "m2")
    /\ ret.tag = "Err"
    /\ ReturnMayFail(Ok(Tuple(Top.acc, ret.val)))
    /\ UNCHANGED <<inv, owner, log, out, flag, result>>

(* Mutant: the pair wraps the second element's error in an error of its own. *)
PairMayFailSecondErr_Wrapped ==
    /\ Running("may_fail", "m2")
    /\ ret.tag = "Err"
    /\ ReturnMayFail(Err(Tuple(Error("second"), ret.val)))
    /\ UNCHANGED <<inv, owner, log, out, flag, result>>

PairMayFailSecondErr ==
    /\ Running("may_fail", "m2")
    /\ ret.tag = "Err"
    /\ ReturnMayFail(Err(ret.val))
    /\ UNCHANGED <<inv, owner, log, out, flag, result>>

PairMayFailOk ==
    /\ Running("may_fail", "m2")
    /\ ret.tag = "Ok"
    /\ ReturnMayFail(Ok(Tuple(Top.acc, ret.val)))
    /\ UNCHANGED <<inv, owner, log, out, flag, result>>

(* Mutant: the second element is committed where the first should be. *)
PairCommitFirst_SecondFirst ==
    /\ Running("commit", "c0")
    /\ Top.self.kind = "Pair"
    /\ log' = Append(log, Invoked("commit", Top))
    /\ stack' = Append(Goto("c1"),
                       Frame("commit", Append(Top.at, 1), Top.self.f1, Top.tmp.f1, "c0"))
    /\ UNCHANGED <<inv, owner, ret, mf, out, flag, result>>

PairCommitFirst ==
    /\ Running("commit", "c0")
    /\ Top.self.kind = "Pair"
    /\ log' = Append(log, Invoked("commit", Top))
    /\ stack' = Append(Goto("c1"),
                       Frame("commit", Append(Top.at, 0), Top.self.f0, Top.tmp.f0, "c0"))
    /\ UNCHANGED <<inv, owner, ret, mf, out, flag, result>>

(* Mutant: the second element is never committed. *)
PairCommitSecond_Skipped ==
    /\ Running("commit", "c1")
    /\ ReturnCommit(Tuple(ret.val, NoValue))
    /\ UNCHANGED <<inv, owner, log, mf, flag, result>>

(* Mutant: the second element is committed with the first element's state. *)
PairCommitSecond_FirstState ==
    /\ Running("commit", "c1")
    /\ stack' = Append(GotoWith("c2", ret.val),
                       Frame("commit", Append(Top.at, 1), Top.self.f1, Top.tmp.f0, "c0"))
    /\ UNCHANGED <<inv, owner, ret, log, mf, out, flag, result>>

PairCommitSecond ==
    /\ Running("commit", "c1")
    /\ stack' = Append(GotoWith("c2", ret.val),
                       Frame("commit", Append(Top.at, 1), Top.self.f1, Top.tmp.f1, "c0"))
    /\ UNCHANGED <<inv, owner, ret, log, mf, out, flag, result>>

(* Mutant: the outputs are returned in the wrong positions. *)
PairCommitReturn_Swapped ==
    /\ Running("commit", "c2")
    /\ ReturnCommit(Tuple(ret.val, Top.acc))
    /\ UNCHANGED <<inv, owner, log, mf, flag, result>>

PairCommitReturn ==
    /\ Running("commit", "c2")
    /\ ReturnCommit(Tuple(Top.acc, ret.val))
    /\ UNCHANGED <<inv, owner, log, mf, flag, result>>

----------------------------------------------------------------------------
(* Leaf invocations: the implementers of the trait *)

(* tests::Constant *)

ConstantMayFail ==
    /\ Running("may_fail", "m0")
    /\ Top.self.kind = "Constant"
    /\ log' = Append(log, Invoked("may_fail", Top))
    /\ ReturnMayFail(Ok(DummyState))
    /\ UNCHANGED <<inv, owner, out, flag, result>>

ConstantCommit ==
    /\ Running("commit", "c0")
    /\ Top.self.kind = "Constant"
    /\ log' = Append(log, Invoked("commit", Top))
    /\ flag' = flag \cup {Top.at}
    /\ ReturnCommit(I32(42))
    /\ UNCHANGED <<inv, owner, mf, result>>

(* tests::Identity<A> *)

IdentityMayFail ==
    /\ Running("may_fail", "m0")
    /\ Top.self.kind = "Identity"
    /\ log' = Append(log, Invoked("may_fail", Top))
    /\ ReturnMayFail(Ok(Unit))
    /\ UNCHANGED <<inv, owner, out, flag, result>>

(* Mutant: the intermediate state is returned in place of the held value. *)
IdentityCommit_ReturnsTmp ==
    /\ Running("commit", "c0")
    /\ Top.self.kind = "Identity"
    /\ log' = Append(log, Invoked("commit", Top))
    /\ flag' = flag \cup {Top.at}
    /\ ReturnCommit(Top.tmp)
    /\ UNCHANGED <<inv, owner, mf, result>>

IdentityCommit ==
    /\ Running("commit", "c0")
    /\ Top.self.kind = "Identity"
    /\ log' = Append(log, Invoked("commit", Top))
    /\ flag' = flag \cup {Top.at}
    /\ ReturnCommit(Top.self.f0)
    /\ UNCHANGED <<inv, owner, mf, result>>

(* Any other implementer of the trait: may_fail reads the held data and    *)
(* returns the intermediate state or the error they determine; commit      *)
(* consumes the invocation and the intermediate state, applies its state   *)
(* change and returns an output made of both.                              *)

ImplOutput(self, tmp) == [ty |-> "Output", input |-> self.input, tmp |-> tmp]

(* Mutant: the fallible phase applies the state change itself. *)
ImplMayFail_SideEffect ==
    /\ Running("may_fail", "m0")
    /\ Top.self.kind = "Impl"
    /\ log' = Append(log, Invoked("may_fail", Top))
    /\ flag' = flag \cup {Top.at}
    /\ ReturnMayFail(Top.self.res)
    /\ UNCHANGED <<inv, owner, out, result>>

ImplMayFail ==
    /\ Running("may_fail", "m0")
    /\ Top.self.kind = "Impl"
    /\ log' = Append(log, Invoked("may_fail", Top))
    /\ ReturnMayFail(Top.self.res)
    /\ UNCHANGED <<inv, owner, out, flag, result>>

ImplCommit ==
    /\ Running("commit", "c0")
    /\ Top.self.kind = "Impl"
    /\ log' = Append(log, Invoked("commit", Top))
    /\ flag' = flag \cup {Top.at}
    /\ ReturnCommit(ImplOutput(Top.self, Top.tmp))
    /\ UNCHANGED <<inv, owner, mf, result>>

----------------------------------------------------------------------------

Next ==
    \/ Execute
    \/ ExecuteMayFail
    \/ ExecuteErr
    \/ ExecuteCommit
    \/ ExecuteOk
    \/ PairMayFailFirst
    \/ PairMayFailFirstErr
    \/ PairMayFailSecond
    \/ PairMayFailSecondErr
    \/ PairMayFailOk
    \/ PairCommitFirst
    \/ PairCommitSecond
    \/ PairCommitReturn
    \/ ConstantMayFail
    \/ ConstantCommit
    \/ IdentityMayFail
    \/ IdentityCommit
    \/ ImplMayFail
    \/ ImplCommit

Spec == Init /\ [][Next]_vars

(* One caller drives execute to completion, synchronously: a step that is  *)
(* possible is eventually taken.                                           *)
FairSpec == Spec /\ WF_vars(Next)

----------------------------------------------------------------------------
(* Vocabulary of the properties *)

Done == result.tag # "None"

Calls(call) == {i \in DOMAIN log : log[i].call = call}
CallsAt(call, at) == {i \in DOMAIN log : log[i].call = call /\ log[i].at = at}
CallsBelow(call, at) ==
    {i \in DOMAIN log :
        /\ log[i].call = call
        /\ Len(log[i].at) >= Len(at)
        /\ SubSeq(log[i].at, 1, Len(at)) = at}

MayFailReturned(at) == at \in DOMAIN mf
Failed(at) == MayFailReturned(at) /\ mf[at].tag = "Err"
Succeeded(at) == MayFailReturned(at) /\ mf[at].tag = "Ok"
Committed(at) == at \in DOMAIN out

LeafPaths == {LeafSeq(inv, <<>>)[i] : i \in DOMAIN LeafSeq(inv, <<>>)}

----------------------------------------------------------------------------
(* C1 - Atomicity of execute: once may_fail of the invocation handed to    *)
(* execute has returned an error e, no commit is ever invoked (no flag is  *)
(* set, ownership never moves into commit), and execute returns Err(e).    *)
C1_Atomicity ==
    Failed(<<>>) =>
        /\ Calls("commit") = {}
        /\ flag = {}
        /\ owner # "commit"
        /\ Done => (result.tag = "Err" /\ result.val = mf[<<>>].val)

C1_Witness ==
    /\ Done
    /\ Failed(<<>>)
    /\ inv.kind = "Impl"
    /\ result = Err(Error("e2"))

(* C2 - Success passthrough: once may_fail of the invocation handed to     *)
(* execute has returned Ok(S), execute invokes commit on it at most once   *)
(* and only after may_fail, with the original invocation and exactly S;    *)
(* when execute has returned, commit was invoked exactly once and the      *)
(* result is Ok(v) for the v commit returned.  Constant yields Ok(42).     *)
C2_SuccessPassthrough ==
    /\ \A i \in CallsAt("commit", <<>>) :
          /\ Succeeded(<<>>)
          /\ \E j \in CallsAt("may_fail", <<>>) : j < i
          /\ log[i].self = inv
          /\ log[i].tmp = mf[<<>>].val
    /\ Cardinality(CallsAt("commit", <<>>)) <= 1
    /\ (Succeeded(<<>>) /\ Done) =>
          /\ Cardinality(CallsAt("commit", <<>>)) = 1
          /\ Committed(<<>>)
          /\ result.tag = "Ok"
          /\ result.val = out[<<>>]
          /\ inv = Constant => result = Ok(I32(42))

C2_Witness ==
    /\ Done
    /\ Succeeded(<<>>)
    /\ inv.kind = "Impl"
    /\ mf[<<>>] = Ok(State("s2"))
    /\ result = Ok(ImplOutput(inv, State("s2")))

(* C3 - Pair short-circuit on the first element: when the may_fail of the  *)
(* first element of the pair handed to execute has failed with e, the      *)
(* second element's may_fail is never called, no commit of either element  *)
(* is invoked, and execute returns Err(e).                                 *)
C3_PairShortCircuitFirst ==
    (inv.kind = "Pair" /\ Failed(<<0>>)) =>
        /\ CallsBelow("may_fail", <<1>>) = {}
        /\ Calls("commit") = {}
        /\ flag = {}
        /\ Done => (result.tag = "Err" /\ result.val = mf[<<0>>].val)

C3_Witness ==
    /\ Done
    /\ inv.kind = "Pair"
    /\ Failed(<<0>>)
    /\ inv.f1.kind = "Impl"
    /\ inv.f1.res.tag = "Ok"
    /\ result = Err(Error("e1"))

(* C4 - Pair short-circuit symmetry: when the first element's may_fail has *)
(* succeeded and the second element's has failed with e, no commit of      *)
(* either element is invoked and execute returns Err(e); the first         *)
(* element's intermediate state had been computed.                         *)
C4_PairShortCircuitSecond ==
    (inv.kind = "Pair" /\ Succeeded(<<0>>) /\ Failed(<<1>>)) =>
        /\ Calls("commit") = {}
        /\ flag = {}
        /\ CallsAt("may_fail", <<0>>) # {}
        /\ Done => (result.tag = "Err" /\ result.val = mf[<<1>>].val)

C4_Witness ==
    /\ Done
    /\ inv.kind = "Pair"
    /\ Succeeded(<<0>>)
    /\ Failed(<<1>>)
    /\ mf[<<0>>] = Ok(State("s1"))
    /\ result = Err(Error("e2"))

(* C5 - Pair success: when the may_fail of both elements of the pair       *)
(* handed to execute succeeded and execute has returned, the result is     *)
(* Ok((a, b)), a the output of the first element's commit and b the output *)
(* of the second element's; two Constants yield (42, 42).                  *)
C5_PairSuccess ==
    (inv.kind = "Pair" /\ Succeeded(<<0>>) /\ Succeeded(<<1>>) /\ Done) =>
        /\ Committed(<<0>>)
        /\ Committed(<<1>>)
        /\ result.tag = "Ok"
        /\ result.val = Tuple(out[<<0>>], out[<<1>>])
        /\ inv = Pair(Constant, Constant) => result = Ok(Tuple(I32(42), I32(42)))

C5_Witness ==
    /\ Done
    /\ inv = Pair(Identity(String("x")), Constant)
    /\ result = Ok(Tuple(String("x"), I32(42)))

----------------------------------------------------------------------------
(* Vocabulary for trees *)

RECURSIVE PairSeq(_, _)
PairSeq(f, at) ==
    IF IsLeaf(f) THEN <<>>
    ELSE <<at>> \o PairSeq(f.f0, Append(at, 0)) \o PairSeq(f.f1, Append(at, 1))

PairPaths == {PairSeq(inv, <<>>)[i] : i \in DOMAIN PairSeq(inv, <<>>)}

Times(call, at) == Cardinality(CallsAt(call, at))

(* C6 - All-or-nothing for nested chains: when execute of a tree of pairs  *)
(* has returned, either the result is Ok and the commit of every leaf was  *)
(* invoked exactly once, or the result is Err and the commit of no leaf    *)
(* was invoked; never some leaves committed and others not.                *)
C6_AllOrNothing ==
    Done =>
        \/ /\ result.tag = "Ok"
           /\ flag = LeafPaths
           /\ \A p \in LeafPaths : Times("commit", p) = 1
        \/ /\ result.tag = "Err"
           /\ flag = {}
           /\ \A p \in LeafPaths : Times("commit", p) = 0

C6_Witness ==
    /\ Done
    /\ inv.kind = "Pair"
    /\ inv.f0.kind = "Pair"
    /\ Succeeded(<<0>>)
    /\ Failed(<<1>>)
    /\ result.tag = "Err"
    /\ flag = {}

(* C7 - Move-only pass-through: when execute of the pass-through           *)
(* invocation holding x has returned, the result is Ok(x) and the held     *)
(* value is x still; holding "Hello, World!", the result is exactly        *)
(* "Hello, World!".                                                        *)
C7_MoveOnlyPassThrough ==
    (inv.kind = "Identity" /\ Done) =>
        /\ result.tag = "Ok"
        /\ result.val = inv.f0
        /\ log[Len(log)].self.f0 = inv.f0
        /\ inv = Identity(String("Hello, World!")) => result.val.v = "Hello, World!"

C7_Witness ==
    /\ Done
    /\ inv = Identity(String("Hello, World!"))
    /\ result = Ok(String("Hello, World!"))

(* C8 - Single consumption without retry: every execute terminates, in Ok  *)
(* or in Err, and during it the may_fail of each leaf is invoked at most   *)
(* once and the commit of each leaf at most once; a leaf whose may_fail    *)
(* failed has had it invoked once only.                                    *)
C8_SingleConsumption ==
    /\ <>(result.tag \in {"Ok", "Err"})
    /\ [](\A p \in LeafPaths :
            /\ Times("may_fail", p) <= 1
            /\ Times("commit", p) <= 1
            /\ Failed(p) => Times("may_fail", p) = 1)

C8_Witness ==
    /\ Done
    /\ Cardinality(LeafPaths) = 3
    /\ \E p \in LeafPaths : Failed(p)
    /\ \E p \in LeafPaths : Succeeded(p)

(* C9 - Phase ordering across a composed tree: whenever a commit (of a     *)
(* leaf or of a pair) is invoked, the may_fail of every leaf of the tree   *)
(* has been invoked before it and has succeeded, and no may_fail is        *)
(* invoked after it.                                                       *)
C9_PhaseOrdering ==
    \A i \in Calls("commit") :
        /\ \A p \in LeafPaths :
              /\ Succeeded(p)
              /\ \E j \in CallsAt("may_fail", p) : j < i
        /\ \A j \in Calls("may_fail") : j < i

C9_Witness ==
    /\ ~Done
    /\ Cardinality(LeafPaths) = 3
    /\ Cardinality(flag) = 1

(* C10 - Left-to-right order inside a pair: in every pair of the tree, the *)
(* second element's may_fail is invoked only after the first element's     *)
(* has been, the second element's commit only after the first element's    *)
(* has returned, and a pair whose commit has returned has had the commit   *)
(* of both its elements invoked, once each.                                *)
C10_LeftToRight ==
    \A p \in PairPaths :
        /\ \A i \in CallsAt("may_fail", Append(p, 1)) :
              /\ MayFailReturned(Append(p, 0))
              /\ \E j \in CallsAt("may_fail", Append(p, 0)) : j < i
        /\ \A i \in CallsAt("may_fail", Append(p, 0)) :
              \E j \in CallsAt("may_fail", p) : j < i
        /\ \A i \in CallsAt("commit", Append(p, 1)) :
              /\ Committed(Append(p, 0))
              /\ \E j \in CallsAt("commit", Append(p, 0)) : j < i
        /\ \A i \in CallsAt("commit", Append(p, 0)) :
              \E j \in CallsAt("commit", p) : j < i
        /\ Committed(p) =>
              /\ Times("commit", Append(p, 0)) = 1
              /\ Times("commit", Append(p, 1)) = 1

C10_Witness ==
    /\ Done
    /\ result.tag = "Ok"
    /\ inv.kind = "Pair"
    /\ inv.f1.kind = "Pair"
    /\ Committed(<<1, 1>>)

----------------------------------------------------------------------------
(* C11 - Frame condition on failure: a step of may_fail (of a leaf or of a *)
(* pair, succeeding or failing) changes neither the held input of any leaf *)
(* nor the state only commit may change; before execute is called that     *)
(* state is untouched, and when execute has returned Err it is untouched   *)
(* still and every may_fail saw the input its leaf holds now.              *)
InMayFail == stack # <<>> /\ Top.fn = "may_fail"

C11_FrameOnFailure ==
    /\ [][InMayFail => (inv' = inv /\ flag' = flag /\ out' = out /\ owner' = owner)]_vars
    /\ [][inv' = inv]_vars
    /\ [](owner = "caller" => (flag = {} /\ out = <<>>))
    /\ [](result.tag = "Err" =>
            /\ flag = {}
            /\ out = <<>>
            /\ \A i \in DOMAIN log : log[i].self = NodeAt(inv, log[i].at))

C11_Witness ==
    /\ result.tag = "Err"
    /\ Cardinality(LeafPaths) = 3
    /\ \E p \in LeafPaths : Succeeded(p) /\ NodeAt(inv, p).kind = "Impl"
    /\ \E p \in LeafPaths : Failed(p)
    /\ flag = {}

----------------------------------------------------------------------------
(* C12 - Intermediate-state routing: every commit invoked during execute   *)
(* (of a leaf or of a pair) receives exactly the intermediate state the    *)
(* may_fail of the same node returned, and that may_fail ran once only: no *)
(* state is swapped between the elements of a pair, recomputed or shared.  *)
C12_StateRouting ==
    \A i \in Calls("commit") :
        /\ Succeeded(log[i].at)
        /\ log[i].tmp = mf[log[i].at].val
        /\ Times("may_fail", log[i].at) = 1
        /\ log[i].self = NodeAt(inv, log[i].at)

C12_Witness ==
    /\ Done
    /\ result.tag = "Ok"
    /\ inv.kind = "Pair"
    /\ inv.f1.kind = "Pair"
    /\ mf[<<0>>] = Ok(State("s1"))
    /\ mf[<<1, 0>>] = Ok(State("s2"))
    /\ mf[<<1, 1>>] = Ok(DummyState)
    /\ \E i \in CallsAt("commit", <<1, 0>>) : log[i].tmp = State("s2")

----------------------------------------------------------------------------
(* C13 - Leftmost error wins: in a tree where the may_fail of one or more  *)
(* leaves would fail, the may_fail of no leaf to the right of the leftmost *)
(* such leaf is ever called, and execute returns Err of that leaf's error, *)
(* unchanged and unwrapped.                                                *)
WouldFail(leaf) == leaf.kind = "Impl" /\ leaf.res.tag = "Err"

LeafAt(i) == NodeAt(inv, LeafSeq(inv, <<>>)[i])

FailingLeaves == {i \in DOMAIN LeafSeq(inv, <<>>) : WouldFail(LeafAt(i))}

Leftmost == CHOOSE i \in FailingLeaves : \A j \in FailingLeaves : i <= j

C13_LeftmostErrorWins ==
    FailingLeaves # {} =>
        /\ \A j \in DOMAIN LeafSeq(inv, <<>>) :
              j > Leftmost => Times("may_fail", LeafSeq(inv, <<>>)[j]) = 0
        /\ Done =>
              /\ result.tag = "Err"
              /\ result.val = LeafAt(Leftmost).res.val
              /\ Times("may_fail", LeafSeq(inv, <<>>)[Leftmost]) = 1

C13_Witness ==
    /\ Done
    /\ Cardinality(LeafPaths) = 3
    /\ FailingLeaves = {2, 3}
    /\ LeafAt(2).res = Err(Error("e2"))
    /\ LeafAt(3).res = Err(Error("e1"))
    /\ result = Err(Error("e2"))

----------------------------------------------------------------------------
(* execute as a function of the invocation: the result and the calls made  *)
(* on the leaves, a leaf being named by its rank from the left.            *)

RECURSIVE NumLeaves(_)
NumLeaves(f) == IF IsLeaf(f) THEN 1 ELSE NumLeaves(f.f0) + NumLeaves(f.f1)

LeafMayFailOf(f) ==
    CASE f.kind = "Constant" -> Ok(DummyState)
      [] f.kind = "Identity" -> Ok(Unit)
      [] f.kind = "Impl" -> f.res

LeafCommitOf(f, tmp) ==
    CASE f.kind = "Constant" -> I32(42)
      [] f.kind = "Identity" -> f.f0
      [] f.kind = "Impl" -> ImplOutput(f, tmp)

LeafCall(call, k, self, tmp) == [call |-> call, leaf |-> k, self |-> self, tmp |-> tmp]

RECURSIVE MayFailOf(_, _)
MayFailOf(f, k) ==
    IF IsLeaf(f)
    THEN [res |-> LeafMayFailOf(f), calls |-> <<LeafCall("may_fail", k, f, NoValue)>>]
    ELSE LET a == MayFailOf(f.f0, k)
             b == MayFailOf(f.f1, k + NumLeaves(f.f0))
         IN  IF a.res.tag = "Err"
             THEN [res |-> Err(a.res.val), calls |-> a.calls]
             ELSE IF b.res.tag = "Err"
             THEN [res |-> Err(b.res.val), calls |-> a.calls \o b.calls]
             ELSE [res |-> Ok(Tuple(a.res.val, b.res.val)), calls |-> a.calls \o b.calls]

RECURSIVE CommitOf(_, _, _)
CommitOf(f, tmp, k) ==
    IF IsLeaf(f)
    THEN [out |-> LeafCommitOf(f, tmp), calls |-> <<LeafCall("commit", k, f, tmp)>>]
    ELSE LET a == CommitOf(f.f0, tmp.f0, k)
             b == CommitOf(f.f1, tmp.f1, k + NumLeaves(f.f0))
         IN  [out |-> Tuple(a.out, b.out), calls |-> a.calls \o b.calls]

ExecuteOf(f) ==
    LET m == MayFailOf(f, 1)
    IN  IF m.res.tag = "Err"
        THEN [result |-> Err(m.res.val), calls |-> m.calls]
        ELSE LET c == CommitOf(f, m.res.val, 1)
             IN  [result |-> Ok(c.out), calls |-> m.calls \o c.calls]

----------------------------------------------------------------------------
(* C14 - Nesting is associative in behaviour: when execute of ((A, B), C)  *)
(* has returned, its calls on the leaves, in order, and its outcome are    *)
(* those of executing (A, (B, C)) over the same A, B, C, and the other way *)
(* round: same Ok/Err, same error, and on success outputs ((a, b), c) and  *)
(* (a, (b, c)) with the same a, b, c.                                      *)
Rank(at) == CHOOSE i \in DOMAIN LeafSeq(inv, <<>>) : LeafSeq(inv, <<>>)[i] = at

IsLeafCall(e) == IsLeaf(e.self)

LeafCalls ==
    LET sel == SelectSeq(log, IsLeafCall)
    IN  [i \in DOMAIN sel |-> LeafCall(sel[i].call, Rank(sel[i].at), sel[i].self, sel[i].tmp)]

LeftNested(f) == f.kind = "Pair" /\ f.f0.kind = "Pair"
RightNested(f) == f.kind = "Pair" /\ f.f1.kind = "Pair"

RotateRight(f) == Pair(f.f0.f0, Pair(f.f0.f1, f.f1))
RotateLeft(f) == Pair(Pair(f.f0, f.f1.f0), f.f1.f1)

C14_Associative ==
    Done =>
        /\ ExecuteOf(inv).calls = LeafCalls
        /\ ExecuteOf(inv).result = result
        /\ LeftNested(inv) =>
              LET other == ExecuteOf(RotateRight(inv))
              IN  /\ other.calls = LeafCalls
                  /\ other.result.tag = result.tag
                  /\ result.tag = "Err" => other.result.val = result.val
                  /\ result.tag = "Ok" =>
                        other.result.val =
                            Tuple(result.val.f0.f0, Tuple(result.val.f0.f1, result.val.f1))
        /\ RightNested(inv) =>
              LET other == ExecuteOf(RotateLeft(inv))
              IN  /\ other.calls = LeafCalls
                  /\ other.result.tag = result.tag
                  /\ result.tag = "Err" => other.result.val = result.val
                  /\ result.tag = "Ok" =>
                        other.result.val =
                            Tuple(Tuple(result.val.f0, result.val.f1.f0), result.val.f1.f1)

C14_Witness ==
    /\ Done
    /\ inv = Pair(Pair(Impl("in", Ok(State("s1"))), Identity(String("x"))), Constant)
    /\ result = Ok(Tuple(Tuple(ImplOutput(inv.f0.f0, State("s1")), String("x")), I32(42)))
    /\ Len(LeafCalls) = 6

====
